---- MODULE Spec2Model ----
(***************************************************************************)
(* A model of the bidirectional map of package bimap: the mutable BiMap    *)
(* (bimap.go) and the read-only ImmutableBiMap (immutable.go).             *)
(*                                                                         *)
(* Go maps are reference objects.  The model keeps them in a heap, a       *)
(* function from locations to maps, and the structs hold locations, so     *)
(* that copying a map and sharing a map are different things.  A location  *)
(* is named after the variable that receives the allocation (make(...)).   *)
(*                                                                         *)
(* K and V are both modelled as small naturals; 0 is Go's zero value of    *)
(* the type and is an ordinary key or value as well.                       *)
(***************************************************************************)
EXTENDS Naturals, FiniteSets, Sequences, TLC

VARIABLES
    heap,      \* location -> Go map (a function from its keys to its values)
    b,         \* the BiMap: its two map locations and its immutable flag
    frozen,    \* an ImmutableBiMap (from Freeze or NewImmutableBiMapFromMap), or Nil
    mine,      \* a map the caller got from GetForwardMap/GetInverseMap and edits
    other,     \* a map the caller got from another such call and only reads
    last,      \* the call made last: name, arguments, outcome, result
    collided,  \* history: an Insert(k, v) was accepted while another key had v
    built,     \* history: the entries frozen was built with (for Freeze, with
               \* the BiMap's flag at the call; for a constructor, with its
               \* input map)
    s,         \* the BiMap's sync.RWMutex: its writer and its readers
    thread     \* each thread's call in progress: where it is, and its locals

vars == <<heap, b, frozen, mine, other, last, collided, built, s, thread>>

\* ---- bounds -------------------------------------------------------------
MaxKey == 1
MaxVal == 2
MaxSnapVal == 1

Keys == 0..MaxKey
Vals == 0..MaxVal

\* The values inserted under SpecFreeze, where a snapshot multiplies the states.
SnapVals == 0..MaxSnapVal

\* The threads that call the BiMap concurrently, and the keys and values they
\* pass, under SpecConc.
MaxThread == 2
MaxConcKey == 0
MaxConcVal == 0

Threads == 1..MaxThread
ConcKeys == 0..MaxConcKey
ConcVals == 0..MaxConcVal

\* Go's zero values of K and V (returned by a map read that misses).
ZeroK == 0
ZeroV == 0

\* Go's nil pointer / nil map: a record with none of the fields of a struct.
Nil == [nil |-> TRUE]

\* ---- Go map primitives --------------------------------------------------
EmptyMap == [x \in {} |-> 0]

\* m[k] = v
MapPut(m, k, v) == [x \in (DOMAIN m) \cup {k} |-> IF x = k THEN v ELSE m[x]]

\* delete(m, k): a no-op when k is absent
MapDelete(m, k) == [x \in (DOMAIN m) \ {k} |-> m[x]]

\* v, ok := m[k]: the zero value and false when k is absent
MapGet(m, k, zero) ==
    IF k \in DOMAIN m THEN [val |-> m[k], ok |-> TRUE]
                      ELSE [val |-> zero, ok |-> FALSE]

\* len(m)
MapLen(m) == Cardinality(DOMAIN m)

\* ---- BiMap --------------------------------------------------------------
\* NewBiMap: two fresh empty maps, immutable false
NewBiMap == [forward |-> "b.forward", inverse |-> "b.inverse", immutable |-> FALSE]

NewBiMapHeap == [l \in {"b.forward", "b.inverse"} |-> EmptyMap]

\* Insert as it would be without the eviction of k's old value (lines 35-37).
InsertHeapNoEvict(h, bm, k, v) ==
    LET h2 == [h EXCEPT ![bm.forward] = MapPut(@, k, v)]
    IN  [h2 EXCEPT ![bm.inverse] = MapPut(@, v, k)]

\* Insert as it would be with the eviction made after the two writes.
InsertHeapEvictLast(h, bm, k, v) ==
    LET old == MapGet(h[bm.forward], k, ZeroV)
        h1 == [h EXCEPT ![bm.forward] = MapPut(@, k, v)]
        h2 == [h1 EXCEPT ![bm.inverse] = MapPut(@, v, k)]
    IN  IF old.ok THEN [h2 EXCEPT ![bm.inverse] = MapDelete(@, old.val)] ELSE h2

\* Insert as it would be if it kept the indices one-to-one by removing the
\* key that had v before.
InsertHeapEvictOldKey(h, bm, k, v) ==
    LET old == MapGet(h[bm.forward], k, ZeroV)
        was == MapGet(h[bm.inverse], v, ZeroK)
        h0 == IF was.ok /\ was.val # k
                 THEN [h EXCEPT ![bm.forward] = MapDelete(@, was.val)]
                 ELSE h
        h1 == IF old.ok
                 THEN [h0 EXCEPT ![bm.inverse] = MapDelete(@, old.val)]
                 ELSE h0
        h2 == [h1 EXCEPT ![bm.forward] = MapPut(@, k, v)]
    IN  [h2 EXCEPT ![bm.inverse] = MapPut(@, v, k)]

\* The body of Insert after the immutable check, as the new heap.
InsertHeap(h, bm, k, v) ==
    LET old == MapGet(h[bm.forward], k, ZeroV)
        h1 == IF old.ok
                 THEN [h EXCEPT ![bm.inverse] = MapDelete(@, old.val)]
                 ELSE h
        h2 == [h1 EXCEPT ![bm.forward] = MapPut(@, k, v)]
    IN  [h2 EXCEPT ![bm.inverse] = MapPut(@, v, k)]

\* DeleteByKey as it would be with the inverse entry left behind (line 122).
DeleteByKeyHeapForwardOnly(h, bm, k) ==
    [h EXCEPT ![bm.forward] = MapDelete(@, k)]

\* DeleteByKey as it would be without the early return for an absent key
\* (lines 118-120): val is then the zero value.
DeleteByKeyHeapNoReturn(h, bm, k) ==
    LET r  == MapGet(h[bm.forward], k, ZeroV)
        h1 == [h EXCEPT ![bm.forward] = MapDelete(@, k)]
    IN  [h1 EXCEPT ![bm.inverse] = MapDelete(@, r.val)]

\* The body of DeleteByKey after the immutable check.
DeleteByKeyHeap(h, bm, k) ==
    LET r == MapGet(h[bm.forward], k, ZeroV)
    IN  IF ~r.ok THEN h
        ELSE LET h1 == [h EXCEPT ![bm.forward] = MapDelete(@, k)]
             IN  [h1 EXCEPT ![bm.inverse] = MapDelete(@, r.val)]

\* DeleteByValue as it would be with delete(b.forward, v) for delete(b.forward, key)
\* (line 142), which compiles whenever K and V are the same type.
DeleteByValueHeapWrongKey(h, bm, v) ==
    LET r == MapGet(h[bm.inverse], v, ZeroK)
    IN  IF ~r.ok THEN h
        ELSE LET h1 == [h EXCEPT ![bm.inverse] = MapDelete(@, v)]
             IN  [h1 EXCEPT ![bm.forward] = MapDelete(@, v)]

\* The body of DeleteByValue after the immutable check.
DeleteByValueHeap(h, bm, v) ==
    LET r == MapGet(h[bm.inverse], v, ZeroK)
    IN  IF ~r.ok THEN h
        ELSE LET h1 == [h EXCEPT ![bm.inverse] = MapDelete(@, v)]
             IN  [h1 EXCEPT ![bm.forward] = MapDelete(@, r.val)]

\* The orders in which a range loop may visit the keys in S.
Orders(S) ==
    {o \in [1..Cardinality(S) -> S] :
        \A i, j \in 1..Cardinality(S) : i # j => o[i] # o[j]}

\* The maps a caller may pass to a constructor.
InputMaps == UNION {[D -> Vals] : D \in SUBSET Keys}

\* NewBiMapFromMap: Insert of every pair of m, in the order the loop visits them.
RECURSIVE NewBiMapFromMapHeap(_, _, _, _)
NewBiMapFromMapHeap(h, bm, m, order) ==
    IF Len(order) = 0 THEN h
    ELSE NewBiMapFromMapHeap(InsertHeap(h, bm, order[1], m[order[1]]), bm, m,
                             [i \in 1..(Len(order) - 1) |-> order[i + 1]])

\* ---- BiMap reads (each takes the read lock and reads one index) --------
ExistsByKey(h, bm, k) == k \in DOMAIN h[bm.forward]

ExistsByValue(h, bm, v) == v \in DOMAIN h[bm.inverse]

GetByKey(h, bm, k) == MapGet(h[bm.forward], k, ZeroV)

GetByValue(h, bm, v) == MapGet(h[bm.inverse], v, ZeroK)

\* GetByKeyWithFallback as it would be if it returned v whatever ok says.
GetByKeyWithFallbackIgnoringOk(h, bm, k, fallback) == GetByKey(h, bm, k).val

GetByKeyWithFallback(h, bm, k, fallback) ==
    LET r == GetByKey(h, bm, k) IN IF r.ok THEN r.val ELSE fallback

GetByValueWithFallback(h, bm, v, fallback) ==
    LET r == GetByValue(h, bm, v) IN IF r.ok THEN r.val ELSE fallback

\* Size as it would be with len(b.inverse).
SizeOfInverse(h, bm) == MapLen(h[bm.inverse])

Size(h, bm) == MapLen(h[bm.forward])

\* Freeze as it would be if it handed out the BiMap's own maps.
FreezeResultShared(bm) == [forward |-> bm.forward, inverse |-> bm.inverse]

\* Freeze: the two indices copied entry by entry into two fresh maps.
FreezeHeap(h, bm) ==
    [l \in (DOMAIN h) \cup {"frozen.forward", "frozen.inverse"} |->
        IF l = "frozen.forward" THEN [k \in DOMAIN h[bm.forward] |-> h[bm.forward][k]]
        ELSE IF l = "frozen.inverse" THEN [v \in DOMAIN h[bm.inverse] |-> h[bm.inverse][v]]
        ELSE h[l]]

FreezeResult(bm) == [forward |-> "frozen.forward", inverse |-> "frozen.inverse"]

\* ---- ImmutableBiMap ------------------------------------------------------
\* The constructor's loop as it would be if a pair whose value an earlier pair
\* has took that pair's place in forward.
RECURSIVE ImmFillDropCollided(_, _, _, _)
ImmFillDropCollided(fwd, inv, m, order) ==
    IF Len(order) = 0 THEN [forward |-> fwd, inverse |-> inv]
    ELSE LET was == MapGet(inv, m[order[1]], ZeroK)
         IN  ImmFillDropCollided(
                 MapPut(IF was.ok THEN MapDelete(fwd, was.val) ELSE fwd,
                        order[1], m[order[1]]),
                 MapPut(inv, m[order[1]], order[1]), m,
                 [i \in 1..(Len(order) - 1) |-> order[i + 1]])

\* NewImmutableBiMapFromMap: one loop filling both fresh maps, in visit order.
RECURSIVE ImmFill(_, _, _, _)
ImmFill(fwd, inv, m, order) ==
    IF Len(order) = 0 THEN [forward |-> fwd, inverse |-> inv]
    ELSE ImmFill(MapPut(fwd, order[1], m[order[1]]),
                 MapPut(inv, m[order[1]], order[1]), m,
                 [i \in 1..(Len(order) - 1) |-> order[i + 1]])

NewImmutableBiMapFromMapHeap(h, m, order) ==
    LET r == ImmFill(EmptyMap, EmptyMap, m, order)
    IN  [l \in (DOMAIN h) \cup {"frozen.forward", "frozen.inverse"} |->
            IF l = "frozen.forward" THEN r.forward
            ELSE IF l = "frozen.inverse" THEN r.inverse
            ELSE h[l]]

NewImmutableBiMapFromMap == [forward |-> "frozen.forward", inverse |-> "frozen.inverse"]

\* The reads (no lock).
ImmGetByKey(h, ib, k) == MapGet(h[ib.forward], k, ZeroV)

ImmGetByValue(h, ib, v) == MapGet(h[ib.inverse], v, ZeroK)

ImmGetByKeyWithFallback(h, ib, k, fallback) ==
    LET r == MapGet(h[ib.forward], k, ZeroV) IN IF r.ok THEN r.val ELSE fallback

ImmGetByValueWithFallback(h, ib, v, fallback) ==
    LET r == MapGet(h[ib.inverse], v, ZeroK) IN IF r.ok THEN r.val ELSE fallback

ImmExistsByKey(h, ib, k) == MapGet(h[ib.forward], k, ZeroV).ok

ImmExistsByValue(h, ib, v) == MapGet(h[ib.inverse], v, ZeroK).ok

ImmSize(h, ib) == MapLen(h[ib.forward])

\* GetForwardMap / GetInverseMap: a new map m at location at, filled from the
\* index entry by entry; the result is the location of m.
ImmGetForwardMapHeap(h, ib, at) ==
    [l \in (DOMAIN h) \cup {at} |->
        IF l = at THEN [k \in DOMAIN h[ib.forward] |-> h[ib.forward][k]] ELSE h[l]]

\* GetForwardMap as it would be if it returned the index itself, as BiMap's does.
ImmGetForwardMapShared(ib, at) == ib.forward

ImmGetForwardMap(ib, at) == at

ImmGetInverseMapHeap(h, ib, at) ==
    [l \in (DOMAIN h) \cup {at} |->
        IF l = at THEN [v \in DOMAIN h[ib.inverse] |-> h[ib.inverse][v]] ELSE h[l]]

ImmGetInverseMap(ib, at) == at

\* ---- the lock and the threads ----------------------------------------------
\* The zero value of sync.RWMutex: w is the thread that has the writer's place
\* (0: none), r the readers that are inside.
NewRWMutex == [w |-> 0, r |-> {}]

\* A thread that is in no call of the BiMap; held says whether it has called
\* Lock() and not yet Unlock().
Idle(held) ==
    [pc |-> "idle", op |-> "none", arg |-> <<>>, val |-> Nil, outcome |-> "ok",
     panicked |-> FALSE,
     held |-> held]

NoCalls == [t \in Threads |-> Idle(FALSE)]

\* ---- the calls ------------------------------------------------------------
\* last records the call that was made last: its name, its arguments, whether
\* it returned ("ok") or panicked ("panic"), and in ret what a read returned
\* or, for a write that got past the immutable check, the entry it looked up
\* (value and presence).
Call(op, arg, outcome, ret) == [op |-> op, arg |-> arg, outcome |-> outcome, ret |-> ret]

Init ==
    /\ heap = NewBiMapHeap
    /\ b = NewBiMap
    /\ frozen = Nil
    /\ mine = Nil
    /\ other = Nil
    /\ last = Call("NewBiMap", <<>>, "ok", <<>>)
    /\ collided = FALSE
    /\ built = Nil
    /\ s = NewRWMutex
    /\ thread = NoCalls

Insert(k, v) ==
    /\ IF b.immutable
          THEN /\ last' = Call("Insert", <<k, v>>, "panic", <<>>)
               /\ UNCHANGED <<heap, collided>>
          ELSE LET old == MapGet(heap[b.forward], k, ZeroV) IN
               /\ heap' = InsertHeap(heap, b, k, v)
               /\ last' = Call("Insert", <<k, v>>, "ok", <<old.val, old.ok>>)
               /\ collided' = (collided \/ \E k2 \in DOMAIN heap[b.forward] :
                                              k2 # k /\ heap[b.forward][k2] = v)
    /\ UNCHANGED <<b, frozen, mine, other, built, s, thread>>

DeleteByKey(k) ==
    /\ IF b.immutable
          THEN /\ last' = Call("DeleteByKey", <<k>>, "panic", <<>>)
               /\ UNCHANGED heap
          ELSE LET r == MapGet(heap[b.forward], k, ZeroV) IN
               /\ heap' = DeleteByKeyHeap(heap, b, k)
               /\ last' = Call("DeleteByKey", <<k>>, "ok", <<r.val, r.ok>>)
    /\ UNCHANGED <<b, frozen, mine, other, collided, built, s, thread>>

\* DeleteByValue as it would be without its immutable check (lines 134-136).
DeleteByValueUnchecked(v) ==
    /\ LET r == MapGet(heap[b.inverse], v, ZeroK) IN
       /\ heap' = DeleteByValueHeap(heap, b, v)
       /\ last' = Call("DeleteByValue", <<v>>, "ok", <<r.val, r.ok>>)
    /\ UNCHANGED <<b, frozen, mine, other, collided, built, s, thread>>

DeleteByValue(v) ==
    /\ IF b.immutable
          THEN /\ last' = Call("DeleteByValue", <<v>>, "panic", <<>>)
               /\ UNCHANGED heap
          ELSE LET r == MapGet(heap[b.inverse], v, ZeroK) IN
               /\ heap' = DeleteByValueHeap(heap, b, v)
               /\ last' = Call("DeleteByValue", <<v>>, "ok", <<r.val, r.ok>>)
    /\ UNCHANGED <<b, frozen, mine, other, collided, built, s, thread>>

MakeImmutable ==
    /\ b' = [b EXCEPT !.immutable = TRUE]
    /\ last' = Call("MakeImmutable", <<>>, "ok", <<>>)
    /\ UNCHANGED <<heap, frozen, mine, other, collided, built, s, thread>>

Freeze ==
    /\ heap' = FreezeHeap(heap, b)
    /\ frozen' = FreezeResult(b)
    /\ last' = Call("Freeze", <<>>, "ok", <<>>)
    /\ built' = [forward |-> heap[b.forward], inverse |-> heap[b.inverse],
                    immutable |-> b.immutable]
    /\ UNCHANGED <<b, mine, other, collided, s, thread>>

\* A read returns ret and changes nothing.
Read(op, arg, ret) ==
    /\ last' = Call(op, arg, "ok", ret)
    /\ UNCHANGED <<heap, b, frozen, mine, other, collided, built, s, thread>>

CallExistsByKey(k) == Read("ExistsByKey", <<k>>, <<ExistsByKey(heap, b, k)>>)

CallExistsByValue(v) == Read("ExistsByValue", <<v>>, <<ExistsByValue(heap, b, v)>>)

CallGetByKey(k) ==
    LET r == GetByKey(heap, b, k) IN Read("GetByKey", <<k>>, <<r.val, r.ok>>)

CallGetByValue(v) ==
    LET r == GetByValue(heap, b, v) IN Read("GetByValue", <<v>>, <<r.val, r.ok>>)

CallGetByKeyWithFallback(k, f) ==
    Read("GetByKeyWithFallback", <<k, f>>, <<GetByKeyWithFallback(heap, b, k, f)>>)

CallGetByValueWithFallback(v, f) ==
    Read("GetByValueWithFallback", <<v, f>>, <<GetByValueWithFallback(heap, b, v, f)>>)

CallSize == Read("Size", <<>>, <<Size(heap, b)>>)

\* The same reads of the ImmutableBiMap.
CallImmExistsByKey(k) ==
    Read("Imm.ExistsByKey", <<k>>, <<ImmExistsByKey(heap, frozen, k)>>)

CallImmExistsByValue(v) ==
    Read("Imm.ExistsByValue", <<v>>, <<ImmExistsByValue(heap, frozen, v)>>)

CallImmGetByKey(k) ==
    LET r == ImmGetByKey(heap, frozen, k) IN Read("Imm.GetByKey", <<k>>, <<r.val, r.ok>>)

CallImmGetByValue(v) ==
    LET r == ImmGetByValue(heap, frozen, v) IN Read("Imm.GetByValue", <<v>>, <<r.val, r.ok>>)

CallImmGetByKeyWithFallback(k, f) ==
    Read("Imm.GetByKeyWithFallback", <<k, f>>,
         <<ImmGetByKeyWithFallback(heap, frozen, k, f)>>)

CallImmGetByValueWithFallback(v, f) ==
    Read("Imm.GetByValueWithFallback", <<v, f>>,
         <<ImmGetByValueWithFallback(heap, frozen, v, f)>>)

CallImmSize == Read("Imm.Size", <<>>, <<ImmSize(heap, frozen)>>)

\* The caller keeps the map GetForwardMap / GetInverseMap returned, either in
\* mine (which it goes on to edit) or in other (which it only reads), with
\* the map's static type: "forward" is a map[K]V, "inverse" a map[V]K.
CallImmGetForwardMap(slot) ==
    /\ heap' = ImmGetForwardMapHeap(heap, frozen, slot)
    /\ IF slot = "mine"
          THEN /\ mine' = [ref |-> ImmGetForwardMap(frozen, slot), of |-> "forward"]
               /\ UNCHANGED other
          ELSE /\ other' = [ref |-> ImmGetForwardMap(frozen, slot), of |-> "forward"]
               /\ UNCHANGED mine
    /\ last' = Call("Imm.GetForwardMap", <<slot>>, "ok", <<>>)
    /\ UNCHANGED <<b, frozen, collided, built, s, thread>>

CallImmGetInverseMap(slot) ==
    /\ heap' = ImmGetInverseMapHeap(heap, frozen, slot)
    /\ IF slot = "mine"
          THEN /\ mine' = [ref |-> ImmGetInverseMap(frozen, slot), of |-> "inverse"]
               /\ UNCHANGED other
          ELSE /\ other' = [ref |-> ImmGetInverseMap(frozen, slot), of |-> "inverse"]
               /\ UNCHANGED mine
    /\ last' = Call("Imm.GetInverseMap", <<slot>>, "ok", <<>>)
    /\ UNCHANGED <<b, frozen, collided, built, s, thread>>

\* GetForwardMap as it would be if it returned a map of the caller's own, as
\* ImmutableBiMap's does.
GetForwardMapOwn(bm, at) == at

\* BiMap.GetForwardMap / GetInverseMap: the index itself, no lock taken; at is
\* the caller's variable that receives it.
GetForwardMap(bm, at) == bm.forward

GetInverseMap(bm, at) == bm.inverse

CallGetForwardMap(slot) ==
    /\ IF slot = "mine"
          THEN /\ mine' = [ref |-> GetForwardMap(b, slot), of |-> "forward"]
               /\ UNCHANGED other
          ELSE /\ other' = [ref |-> GetForwardMap(b, slot), of |-> "forward"]
               /\ UNCHANGED mine
    /\ last' = Call("GetForwardMap", <<slot>>, "ok", <<>>)
    /\ UNCHANGED <<heap, b, frozen, collided, built, s, thread>>

CallGetInverseMap(slot) ==
    /\ IF slot = "mine"
          THEN /\ mine' = [ref |-> GetInverseMap(b, slot), of |-> "inverse"]
               /\ UNCHANGED other
          ELSE /\ other' = [ref |-> GetInverseMap(b, slot), of |-> "inverse"]
               /\ UNCHANGED mine
    /\ last' = Call("GetInverseMap", <<slot>>, "ok", <<>>)
    /\ UNCHANGED <<heap, b, frozen, collided, built, s, thread>>

\* The caller's own code: mine[x] = y and delete(mine, x) on the map it holds.
CallerPut(x, y) ==
    /\ mine # Nil
    /\ IF mine.of = "forward" THEN x \in Keys /\ y \in Vals
                              ELSE x \in Vals /\ y \in Keys
    /\ heap' = [heap EXCEPT ![mine.ref] = MapPut(@, x, y)]
    /\ last' = Call("caller.put", <<>>, "ok", <<>>)
    /\ UNCHANGED <<b, frozen, mine, other, collided, built, s, thread>>

CallerDelete(x) ==
    /\ mine # Nil
    /\ IF mine.of = "forward" THEN x \in Keys ELSE x \in Vals
    /\ heap' = [heap EXCEPT ![mine.ref] = MapDelete(@, x)]
    /\ last' = Call("caller.delete", <<>>, "ok", <<>>)
    /\ UNCHANGED <<b, frozen, mine, other, collided, built, s, thread>>

\* ---- the calls, step by step, of concurrent threads ------------------------
\* Under SpecConc every thread is in at most one call; a call takes the lock,
\* runs its body one statement at a time and releases the lock on its way out
\* (the deferred Unlock / RUnlock).  pc names the statement the thread is at.
\* Which method a waiting thread is in, and the arguments of a call, are the
\* caller's own choice and play no part before the statement that first
\* depends on them: that is where they are drawn; op is the method once the
\* lock is taken, and arg holds the arguments drawn so far.
WriteLockOps == {"Insert", "DeleteByKey", "DeleteByValue", "MakeImmutable", "Lock"}

ReadLockOps == {"ExistsByKey", "ExistsByValue", "GetByKey", "GetByValue", "Size", "Freeze"}

NoLockOps == {"GetForwardMap", "GetInverseMap"}

\* sync.RWMutex.  Lock first waits for the writer's place (CanLock), which at
\* once keeps new readers out, then for the readers that are inside to leave
\* (ReadersGone).  RLock waits while a writer has the writer's place
\* (CanRLock); Unlock lets in all the readers that wait, then gives the
\* writer's place up.
\* Lock as it would be if it did not wait for the lock to be free.
CanLockNoWait(m) == TRUE

CanLock(m) == m.w = 0

ReadersGone(m) == m.r = {}

\* RLock as it would be if it did not wait for the writer.
CanRLockNoWait(m) == TRUE

CanRLock(m) == m.w = 0

\* Thread t goes on to statement pc of its call.
Goto(t, pc) == thread' = [thread EXCEPT ![t].pc = pc]

\* Thread t enters a call whose first statement is b.s.Lock() or b.s.RLock(),
\* and waits there.
Begin(t, first) ==
    /\ thread[t].pc = "idle"
    /\ first \in {"Lock", "RLock"}
    /\ thread' = [thread EXCEPT ![t].pc = first, ![t].panicked = FALSE]
    /\ UNCHANGED <<heap, b, frozen, mine, other, last, collided, built, s>>

\* Thread t enters GetForwardMap or GetInverseMap, which take no lock and have
\* their result (the BiMap's own map) at once.
BeginNoLock(t, op) ==
    /\ thread[t].pc = "idle"
    /\ thread' = [thread EXCEPT ![t].pc = "return", ![t].op = op,
                                ![t].panicked = FALSE,
                                ![t].val = [map |-> b[IF op = "GetForwardMap"
                                                          THEN "forward" ELSE "inverse"]]]
    /\ UNCHANGED <<heap, b, frozen, mine, other, last, collided, built, s>>

\* b.s.Lock(), first half: the thread takes the writer's place.
AnnounceLock(t) ==
    /\ thread[t].pc = "Lock"
    /\ CanLock(s)
    /\ s' = [s EXCEPT !.w = t]
    /\ Goto(t, "drain")
    /\ UNCHANGED <<heap, b, frozen, mine, other, last, collided, built>>

\* b.s.Lock() returns once the readers are gone: in Lock() itself, which then
\* returns holding the lock, or as the first statement of the write op.
AcquireLock(t, op) ==
    /\ thread[t].pc = "drain"
    /\ ReadersGone(s)
    /\ thread' = [thread EXCEPT ![t] =
           IF op = "Lock" THEN Idle(TRUE)
           ELSE [@ EXCEPT !.op = op,
                          !.pc = IF op = "MakeImmutable" THEN "set" ELSE "check"]]
    /\ UNCHANGED <<heap, b, frozen, mine, other, last, collided, built, s>>

\* b.s.RLock() returns, as the first statement of a read or of Freeze.
AcquireRLock(t) ==
    /\ thread[t].pc = "RLock"
    /\ CanRLock(s)
    /\ s' = [s EXCEPT !.r = @ \cup {t}]
    /\ Goto(t, "read")
    /\ UNCHANGED <<heap, b, frozen, mine, other, last, collided, built>>

\* b.s.Unlock(): thread t, back in state after, gives the writer's place up
\* and the readers that wait in RLock are let in.
WriterUnlock(t, after) ==
    /\ s' = [w |-> 0, r |-> {u \in Threads : thread[u].pc = "RLock"}]
    /\ thread' = [u \in Threads |->
                      IF u = t THEN after
                      ELSE IF thread[u].pc = "RLock" THEN [thread[u] EXCEPT !.pc = "read"]
                      ELSE thread[u]]

\* if b.immutable { panic(...) } of Insert, DeleteByKey and DeleteByValue.
CheckImmutable(t) ==
    /\ thread[t].pc = "check"
    /\ thread' = [thread EXCEPT ![t] =
           IF b.immutable
              THEN [@ EXCEPT !.pc = "Unlock", !.outcome = "panic"]
              ELSE [@ EXCEPT !.pc = IF thread[t].op = "Insert" THEN "evict" ELSE "lookup"]]
    /\ UNCHANGED <<heap, b, frozen, mine, other, last, collided, built, s>>

\* Insert: if _, ok := b.forward[k]; ok { delete(b.inverse, b.forward[k]) }
InsertEvict(t, k) ==
    /\ thread[t].pc = "evict"
    /\ LET old == MapGet(heap[b.forward], k, ZeroV) IN
       /\ heap' = IF old.ok THEN [heap EXCEPT ![b.inverse] = MapDelete(@, old.val)]
                            ELSE heap
       /\ thread' = [thread EXCEPT ![t].pc = "putForward", ![t].arg = <<k>>,
                                    ![t].val = old]
    /\ UNCHANGED <<b, frozen, mine, other, last, collided, built, s>>

\* Insert: b.forward[k] = v
InsertPutForward(t, v) ==
    /\ thread[t].pc = "putForward"
    /\ LET k == thread[t].arg[1] IN
       /\ heap' = [heap EXCEPT ![b.forward] = MapPut(@, k, v)]
       /\ collided' = (collided \/ \E k2 \in DOMAIN heap[b.forward] :
                                      k2 # k /\ heap[b.forward][k2] = v)
       /\ thread' = [thread EXCEPT ![t].pc = "putInverse", ![t].arg = <<k, v>>]
    /\ UNCHANGED <<b, frozen, mine, other, last, built, s>>

\* Insert: b.inverse[v] = k
InsertPutInverse(t) ==
    /\ thread[t].pc = "putInverse"
    /\ heap' = [heap EXCEPT ![b.inverse] = MapPut(@, thread[t].arg[2], thread[t].arg[1])]
    /\ Goto(t, "Unlock")
    /\ UNCHANGED <<b, frozen, mine, other, last, collided, built, s>>

\* DeleteByKey: val, ok := b.forward[k]; if !ok { return }
\* DeleteByValue: key, ok := b.inverse[v]; if !ok { return }
DeleteLookup(t, x) ==
    /\ thread[t].pc = "lookup"
    /\ x \in (IF thread[t].op = "DeleteByKey" THEN ConcKeys ELSE ConcVals)
    /\ LET r == IF thread[t].op = "DeleteByKey"
                   THEN MapGet(heap[b.forward], x, ZeroV)
                   ELSE MapGet(heap[b.inverse], x, ZeroK)
       IN  thread' = [thread EXCEPT ![t].arg = <<x>>, ![t].val = r,
                                    ![t].pc = IF r.ok THEN "deleteFirst" ELSE "Unlock"]
    /\ UNCHANGED <<heap, b, frozen, mine, other, last, collided, built, s>>

\* DeleteByKey: delete(b.forward, k); DeleteByValue: delete(b.inverse, v)
DeleteFirst(t) ==
    /\ thread[t].pc = "deleteFirst"
    /\ heap' = IF thread[t].op = "DeleteByKey"
                  THEN [heap EXCEPT ![b.forward] = MapDelete(@, thread[t].arg[1])]
                  ELSE [heap EXCEPT ![b.inverse] = MapDelete(@, thread[t].arg[1])]
    /\ Goto(t, "deleteSecond")
    /\ UNCHANGED <<b, frozen, mine, other, last, collided, built, s>>

\* DeleteByKey: delete(b.inverse, val); DeleteByValue: delete(b.forward, key)
DeleteSecond(t) ==
    /\ thread[t].pc = "deleteSecond"
    /\ heap' = IF thread[t].op = "DeleteByKey"
                  THEN [heap EXCEPT ![b.inverse] = MapDelete(@, thread[t].val.val)]
                  ELSE [heap EXCEPT ![b.forward] = MapDelete(@, thread[t].val.val)]
    /\ Goto(t, "Unlock")
    /\ UNCHANGED <<b, frozen, mine, other, last, collided, built, s>>

\* MakeImmutable as it would be with b.immutable = !b.immutable.
SetImmutableToggle(t) ==
    /\ thread[t].pc = "set"
    /\ b' = [b EXCEPT !.immutable = ~@]
    /\ Goto(t, "Unlock")
    /\ UNCHANGED <<heap, frozen, mine, other, last, collided, built, s>>

\* MakeImmutable: b.immutable = true
SetImmutable(t) ==
    /\ thread[t].pc = "set"
    /\ b' = [b EXCEPT !.immutable = TRUE]
    /\ Goto(t, "Unlock")
    /\ UNCHANGED <<heap, frozen, mine, other, last, collided, built, s>>

\* The one statement of the read op: it reads one index and has its result.
ReadIndex(t, op, x) ==
    /\ thread[t].pc = "read"
    /\ op \in ReadLockOps \ {"Freeze"}
    /\ LET r  == IF op = "GetByKey" THEN GetByKey(heap, b, x)
                                    ELSE GetByValue(heap, b, x)
       IN  /\ x \in (IF op \in {"ExistsByKey", "GetByKey"} THEN ConcKeys
                     ELSE IF op = "Size" THEN {0} ELSE ConcVals)
           /\ thread' = [thread EXCEPT ![t].pc = "RUnlock", ![t].op = op,
                  ![t].arg = IF op = "Size" THEN <<>> ELSE <<x>>,
                  ![t].val =
                      IF op = "ExistsByKey" THEN [ok |-> ExistsByKey(heap, b, x)]
                      ELSE IF op = "ExistsByValue" THEN [ok |-> ExistsByValue(heap, b, x)]
                      ELSE IF op = "Size" THEN [n |-> Size(heap, b)]
                      ELSE r]
    /\ UNCHANGED <<heap, b, frozen, mine, other, last, collided, built, s>>

\* Freeze: forward := make(...); for k, v := range b.forward { forward[k] = v }
FreezeCopyForward(t) ==
    /\ thread[t].pc = "read"
    /\ thread' = [thread EXCEPT ![t].pc = "copyInverse", ![t].op = "Freeze",
                                ![t].val = [forward |-> heap[b.forward]]]
    /\ UNCHANGED <<heap, b, frozen, mine, other, last, collided, built, s>>

\* Freeze: inverse := make(...); for v, k := range b.inverse { inverse[v] = k }
FreezeCopyInverse(t) ==
    /\ thread[t].pc = "copyInverse"
    /\ thread' = [thread EXCEPT ![t].pc = "RUnlock",
                                ![t].val = [forward |-> thread[t].val.forward,
                                            inverse |-> heap[b.inverse]]]
    /\ UNCHANGED <<heap, b, frozen, mine, other, last, collided, built, s>>

\* The end of a write as it would be with b.s.Unlock() as the last statement
\* of the body, which a panic skips, in place of the deferred call.
ReleaseLockSkippedByPanic(t) ==
    /\ thread[t].pc = "Unlock"
    /\ IF thread[t].outcome = "panic"
          THEN /\ thread' = [thread EXCEPT
                                ![t] = [Idle(thread[t].held) EXCEPT !.panicked = TRUE]]
               /\ UNCHANGED s
          ELSE WriterUnlock(t, Idle(thread[t].held))
    /\ UNCHANGED <<heap, b, frozen, mine, other, last, collided, built>>

\* defer b.s.Unlock(): the write leaves, by return or by the panic, which the
\* caller recovers; panicked says that the thread's latest call left by a
\* panic, until the thread makes its next call.
ReleaseLock(t) ==
    /\ thread[t].pc = "Unlock"
    /\ WriterUnlock(t, [Idle(thread[t].held) EXCEPT
                           !.panicked = (thread[t].outcome = "panic")])
    /\ UNCHANGED <<heap, b, frozen, mine, other, last, collided, built>>

\* defer b.s.RUnlock(): the read returns (Freeze: the snapshot, which the
\* caller of this specification drops).
ReleaseRLock(t) ==
    /\ thread[t].pc = "RUnlock"
    /\ s' = [s EXCEPT !.r = @ \ {t}]
    /\ thread' = [thread EXCEPT ![t] = Idle(thread[t].held)]
    /\ UNCHANGED <<heap, b, frozen, mine, other, last, collided, built>>

\* GetForwardMap / GetInverseMap returns.
Return(t) ==
    /\ thread[t].pc = "return"
    /\ thread' = [thread EXCEPT ![t] = Idle(thread[t].held)]
    /\ UNCHANGED <<heap, b, frozen, mine, other, last, collided, built, s>>

\* Unlock() as it would be with b.s.RUnlock() for b.s.Unlock().
UnlockAsReader(t) ==
    /\ thread[t].pc = "idle"
    /\ thread[t].held
    /\ s' = [s EXCEPT !.r = @ \ {t}]
    /\ thread' = [thread EXCEPT ![t] = Idle(FALSE)]
    /\ UNCHANGED <<heap, b, frozen, mine, other, last, collided, built>>

\* Unlock(), by the thread that called Lock().
Unlock(t) ==
    /\ thread[t].pc = "idle"
    /\ thread[t].held
    /\ WriterUnlock(t, Idle(FALSE))
    /\ UNCHANGED <<heap, b, frozen, mine, other, last, collided, built>>

\* ---- specifications -------------------------------------------------------
\* Spec: one BiMap from NewBiMap, under every sequence of its writes, reads
\* and MakeImmutable.
Next ==
    \/ \E k \in Keys, v \in Vals : Insert(k, v)
    \/ \E k \in Keys : DeleteByKey(k)
    \/ \E v \in Vals : DeleteByValue(v)
    \/ MakeImmutable
    \/ \E k \in Keys : CallExistsByKey(k)
    \/ \E v \in Vals : CallExistsByValue(v)
    \/ \E k \in Keys : CallGetByKey(k)
    \/ \E v \in Vals : CallGetByValue(v)
    \/ \E k \in Keys, f \in Vals : CallGetByKeyWithFallback(k, f)
    \/ \E v \in Vals, f \in Keys : CallGetByValueWithFallback(v, f)
    \/ CallSize

Spec == Init /\ [][Next]_vars

\* SpecFreeze: the BiMap under its writes, MakeImmutable and Freeze; frozen is
\* the snapshot the latest Freeze returned.  The values are those of SnapVals.
NextFreeze ==
    \/ \E k \in Keys, v \in SnapVals : Insert(k, v)
    \/ \E k \in Keys : DeleteByKey(k)
    \/ \E v \in SnapVals : DeleteByValue(v)
    \/ MakeImmutable
    \/ Freeze

SpecFreeze == Init /\ [][NextFreeze]_vars

\* SpecReads: a BiMap from NewBiMapFromMap(m) and an ImmutableBiMap from
\* NewImmutableBiMapFromMap(m), for every input map m and every order in which
\* the constructors' loops may visit it, under every read of both.
InitReads ==
    \E m \in InputMaps : \E o1, o2 \in Orders(DOMAIN m) :
        /\ heap = NewImmutableBiMapFromMapHeap(
                      NewBiMapFromMapHeap(NewBiMapHeap, NewBiMap, m, o1), m, o2)
        /\ b = NewBiMap
        /\ frozen = NewImmutableBiMapFromMap
        /\ mine = Nil
        /\ other = Nil
        /\ last = Call("NewBiMapFromMap", <<>>, "ok", <<>>)
        /\ collided = FALSE
        /\ built = [forward |-> heap["frozen.forward"], inverse |-> heap["frozen.inverse"],
                    input |-> m]
        /\ s = NewRWMutex
        /\ thread = NoCalls

NextReads ==
    \/ MakeImmutable
    \/ \E k \in Keys : CallExistsByKey(k)
    \/ \E v \in Vals : CallExistsByValue(v)
    \/ \E k \in Keys : CallGetByKey(k)
    \/ \E v \in Vals : CallGetByValue(v)
    \/ \E k \in Keys, f \in Vals : CallGetByKeyWithFallback(k, f)
    \/ \E v \in Vals, f \in Keys : CallGetByValueWithFallback(v, f)
    \/ CallSize
    \/ \E k \in Keys : CallImmExistsByKey(k)
    \/ \E v \in Vals : CallImmExistsByValue(v)
    \/ \E k \in Keys : CallImmGetByKey(k)
    \/ \E v \in Vals : CallImmGetByValue(v)
    \/ \E k \in Keys, f \in Vals : CallImmGetByKeyWithFallback(k, f)
    \/ \E v \in Vals, f \in Keys : CallImmGetByValueWithFallback(v, f)
    \/ CallImmSize

SpecReads == InitReads /\ [][NextReads]_vars

\* SpecImm: an ImmutableBiMap from NewImmutableBiMapFromMap(m) whose caller
\* takes copies of its indices and edits one of them.
InitImm ==
    \E m \in InputMaps : \E o \in Orders(DOMAIN m) :
        /\ heap = NewImmutableBiMapFromMapHeap([l \in {} |-> EmptyMap], m, o)
        /\ b = Nil
        /\ frozen = NewImmutableBiMapFromMap
        /\ mine = Nil
        /\ other = Nil
        /\ last = Call("NewImmutableBiMapFromMap", <<>>, "ok", <<>>)
        /\ collided = FALSE
        /\ built = [forward |-> heap["frozen.forward"], inverse |-> heap["frozen.inverse"],
                    input |-> m]
        /\ s = NewRWMutex
        /\ thread = NoCalls

NextImm ==
    \/ \E slot \in {"mine", "other"} : CallImmGetForwardMap(slot)
    \/ \E slot \in {"mine", "other"} : CallImmGetInverseMap(slot)
    \/ \E x \in Keys \cup Vals, y \in Keys \cup Vals : CallerPut(x, y)
    \/ \E x \in Keys \cup Vals : CallerDelete(x)

SpecImm == InitImm /\ [][NextImm]_vars

\* SpecLive: the BiMap under its writes and MakeImmutable, with a caller that
\* takes its indices through GetForwardMap / GetInverseMap, keeps them and
\* reads the BiMap.  The values are those of SnapVals.
NextLive ==
    \/ \E k \in Keys, v \in SnapVals : Insert(k, v)
    \/ \E k \in Keys : DeleteByKey(k)
    \/ \E v \in SnapVals : DeleteByValue(v)
    \/ MakeImmutable
    \/ \E slot \in {"mine", "other"} : CallGetForwardMap(slot)
    \/ \E slot \in {"mine", "other"} : CallGetInverseMap(slot)
    \/ \E k \in Keys : CallGetByKey(k)
    \/ \E v \in SnapVals : CallGetByValue(v)

SpecLive == Init /\ [][NextLive]_vars

\* SpecConc: one BiMap from NewBiMapFromMap(m), for every input map m over
\* ConcKeys and ConcVals (the empty m gives what NewBiMap() gives), called by
\* the threads of Threads in every interleaving of their statements.
ConcInputMaps == UNION {[D -> ConcVals] : D \in SUBSET ConcKeys}

InitConc ==
    \E m \in ConcInputMaps : \E o \in Orders(DOMAIN m) :
        /\ heap = NewBiMapFromMapHeap(NewBiMapHeap, NewBiMap, m, o)
        /\ b = NewBiMap
        /\ frozen = Nil
        /\ mine = Nil
        /\ other = Nil
        /\ last = Call("NewBiMapFromMap", <<>>, "ok", <<>>)
        /\ collided = (\E k1, k2 \in DOMAIN m : k1 # k2 /\ m[k1] = m[k2])
        /\ built = Nil
        /\ s = NewRWMutex
        /\ thread = NoCalls

\* The calls of the threads, with keys from K and values from V.
Calls(K, V) ==
    \/ \E t \in Threads : \E first \in {"Lock", "RLock"} : Begin(t, first)
    \/ \E t \in Threads : \E op \in NoLockOps : BeginNoLock(t, op)
    \/ \E t \in Threads : AnnounceLock(t)
    \/ \E t \in Threads : \E op \in WriteLockOps : AcquireLock(t, op)
    \/ \E t \in Threads : AcquireRLock(t)
    \/ \E t \in Threads : CheckImmutable(t)
    \/ \E t \in Threads : \E k \in K : InsertEvict(t, k)
    \/ \E t \in Threads : \E v \in V : InsertPutForward(t, v)
    \/ \E t \in Threads : InsertPutInverse(t)
    \/ \E t \in Threads : \E x \in K \cup V : DeleteLookup(t, x)
    \/ \E t \in Threads : DeleteFirst(t)
    \/ \E t \in Threads : DeleteSecond(t)
    \/ \E t \in Threads : SetImmutable(t)
    \/ \E t \in Threads : \E op \in ReadLockOps : \E x \in K \cup V :
           ReadIndex(t, op, x)
    \/ \E t \in Threads : FreezeCopyForward(t)
    \/ \E t \in Threads : FreezeCopyInverse(t)
    \/ \E t \in Threads : ReleaseLock(t)
    \/ \E t \in Threads : ReleaseRLock(t)
    \/ \E t \in Threads : Return(t)
    \/ \E t \in Threads : Unlock(t)

NextConc == Calls(ConcKeys, ConcVals)

SpecConc == InitConc /\ [][NextConc]_vars

\* SpecConcFair: the calls of SpecConc with the scheduling the Go runtime gives.  A thread
\* that is at a statement executes it if it can from then on (weak fairness;
\* inside Lock and RLock that is when the lock lets it in); a thread that
\* waits for the writer's place gets it if the place is free again and again
\* (strong fairness: sync.Mutex hands the lock over to a starving waiter).
\* Whether a thread calls anything, Unlock() included, is up to the caller.
Statement(t, K, V) ==
    \/ \E op \in WriteLockOps : AcquireLock(t, op)
    \/ AcquireRLock(t)
    \/ CheckImmutable(t)
    \/ \E k \in K : InsertEvict(t, k)
    \/ \E v \in V : InsertPutForward(t, v)
    \/ InsertPutInverse(t)
    \/ \E x \in K \cup V : DeleteLookup(t, x)
    \/ DeleteFirst(t)
    \/ DeleteSecond(t)
    \/ SetImmutable(t)
    \/ \E op \in ReadLockOps : \E x \in K \cup V : ReadIndex(t, op, x)
    \/ FreezeCopyForward(t)
    \/ FreezeCopyInverse(t)
    \/ ReleaseLock(t)
    \/ ReleaseRLock(t)
    \/ Return(t)

FairConc(K, V) ==
    \A t \in Threads :
        /\ WF_vars(Statement(t, K, V))
        /\ SF_vars(AnnounceLock(t))

\* The lock treats every call alike whatever its arguments: under SpecConcFair
\* the BiMap is the one NewBiMap() makes, and the threads pass the one key and
\* the one value of LockKeys and LockVals.
LockKeys == {ZeroK}
LockVals == {ZeroV}

NextConcFair == Calls(LockKeys, LockVals)

SpecConcFair == Init /\ [][NextConcFair]_vars /\ FairConc(LockKeys, LockVals)

\* ---- properties -----------------------------------------------------------
\* The bijection invariant of the two indices of a BiMap: forward and inverse
\* are exact inverses of one another and have the same number of entries.
ForwardInverted(h, bm) ==
    \A k \in DOMAIN h[bm.forward] :
        /\ h[bm.forward][k] \in DOMAIN h[bm.inverse]
        /\ h[bm.inverse][h[bm.forward][k]] = k

InverseInverted(h, bm) ==
    \A v \in DOMAIN h[bm.inverse] :
        /\ h[bm.inverse][v] \in DOMAIN h[bm.forward]
        /\ h[bm.forward][h[bm.inverse][v]] = v

Bijection(h, bm) ==
    /\ ForwardInverted(h, bm)
    /\ InverseInverted(h, bm)
    /\ MapLen(h[bm.forward]) = MapLen(h[bm.inverse])

\* C1: from NewBiMap(), after every sequence of Insert, DeleteByKey and
\* DeleteByValue calls in which no Insert(k, v) was made while v was the value
\* of a different key, every key k of forward has inverse[forward[k]] = k,
\* every value v of inverse has forward[inverse[v]] = v, and the two indices
\* have the same number of entries.
C1_Bijection == ~collided => Bijection(heap, b)

\* No Insert has collided, a pair has just been removed by its value and
\* another pair is still stored.
C1_Witness ==
    /\ ~collided
    /\ last.op = "DeleteByValue" /\ last.outcome = "ok" /\ last.ret[2]
    /\ MapLen(heap[b.forward]) = 1

WriteOps == {"Insert", "DeleteByKey", "DeleteByValue"}

\* Every read of the BiMap bm returns the same in heap h2 as in heap h1.
SameReads(h1, h2, bm) ==
    /\ \A k \in Keys :
        /\ GetByKey(h2, bm, k) = GetByKey(h1, bm, k)
        /\ ExistsByKey(h2, bm, k) = ExistsByKey(h1, bm, k)
    /\ \A v \in Vals :
        /\ GetByValue(h2, bm, v) = GetByValue(h1, bm, v)
        /\ ExistsByValue(h2, bm, v) = ExistsByValue(h1, bm, v)
    /\ Size(h2, bm) = Size(h1, bm)

\* C2: MakeImmutable sets the flag and leaves the indices alone; from then on
\* the flag stays set, every Insert, DeleteByKey and DeleteByValue panics,
\* forward and inverse stay exactly as they were, and GetByKey, GetByValue,
\* ExistsByKey, ExistsByValue and Size return what they returned before.
C2_Finality ==
    [][ /\ last'.op = "MakeImmutable" =>
            /\ b'.immutable
            /\ heap'[b'.forward] = heap[b.forward]
            /\ heap'[b'.inverse] = heap[b.inverse]
        /\ b.immutable =>
            /\ b' = b
            /\ last'.op \in WriteOps => last'.outcome = "panic"
            /\ last'.op \notin WriteOps => last'.outcome = "ok"
            /\ heap'[b.forward] = heap[b.forward]
            /\ heap'[b.inverse] = heap[b.inverse]
            /\ SameReads(heap, heap', b)
      ]_vars

\* The BiMap is immutable and a DeleteByValue of a value it holds has panicked.
C2_Witness ==
    /\ b.immutable
    /\ last.op = "DeleteByValue" /\ last.outcome = "panic"
    /\ last.arg[1] \in DOMAIN heap[b.inverse]

\* C3: S = M.Freeze() holds exactly the forward and inverse entries M had at
\* the call, and every read of S returns what those entries give, whatever
\* Insert, DeleteByKey, DeleteByValue or MakeImmutable did to M since; Freeze
\* changes neither M's entries nor M's flag; a non-frozen M accepts Insert
\* (also after Freeze).
C3_FreezeIndependence ==
    /\ frozen # Nil =>
        /\ heap[frozen.forward] = built.forward
        /\ heap[frozen.inverse] = built.inverse
        /\ \A k \in Keys :
            /\ ImmGetByKey(heap, frozen, k) = MapGet(built.forward, k, ZeroV)
            /\ ImmExistsByKey(heap, frozen, k) = (k \in DOMAIN built.forward)
        /\ \A v \in Vals :
            /\ ImmGetByValue(heap, frozen, v) = MapGet(built.inverse, v, ZeroK)
            /\ ImmExistsByValue(heap, frozen, v) = (v \in DOMAIN built.inverse)
        /\ ImmSize(heap, frozen) = Cardinality(DOMAIN built.forward)
    /\ last.op = "Freeze" =>
        /\ frozen # Nil
        /\ heap[b.forward] = built.forward
        /\ heap[b.inverse] = built.inverse
        /\ b.immutable = built.immutable
    /\ (last.op = "Insert" /\ ~b.immutable) =>
        /\ last.outcome = "ok"
        /\ GetByKey(heap, b, last.arg[1]) = [val |-> last.arg[2], ok |-> TRUE]

\* A snapshot with a pair in it exists, and an Insert made after it was taken
\* has been accepted and has made M differ from the snapshot.
C3_Witness ==
    /\ frozen # Nil
    /\ last.op = "Insert" /\ last.outcome = "ok"
    /\ MapLen(heap[frozen.forward]) >= 1
    /\ heap[frozen.forward] # heap[b.forward]
    /\ heap[frozen.inverse] # heap[b.inverse]

\* C4: on a non-frozen BiMap where k maps to v1, Insert(k, v2) with v2 # v1
\* leaves GetByKey(k) = (v2, true) and GetByValue(v2) = (k, true), removes v1
\* from the inverse index (so ExistsByValue(v1) is false, in particular when
\* no other key maps to v1) and leaves Size() unchanged.
C4_Overwrite ==
    [][ ( /\ last'.op = "Insert" /\ last'.outcome = "ok"
          /\ last'.arg[1] \in DOMAIN heap[b.forward]
          /\ heap[b.forward][last'.arg[1]] # last'.arg[2] ) =>
        LET k  == last'.arg[1]
            v2 == last'.arg[2]
            v1 == heap[b.forward][k]
        IN  /\ GetByKey(heap', b', k) = [val |-> v2, ok |-> TRUE]
            /\ GetByValue(heap', b', v2) = [val |-> k, ok |-> TRUE]
            /\ v1 \notin DOMAIN heap'[b'.inverse]
            /\ (\A k2 \in (DOMAIN heap[b.forward]) \ {k} : heap[b.forward][k2] # v1)
                   => ~ExistsByValue(heap', b', v1)
            /\ Size(heap', b') = Size(heap, b)
      ]_vars

\* An Insert has overwritten the value v1 of a key with another value while a
\* second pair was stored, and no key maps to v1 any more.
C4_Witness ==
    /\ last.op = "Insert" /\ last.outcome = "ok"
    /\ last.ret[2] /\ last.ret[1] # last.arg[2]
    /\ MapLen(heap[b.forward]) = 2
    /\ \A k \in DOMAIN heap[b.forward] : heap[b.forward][k] # last.ret[1]

\* C5 as claimed: in every state reachable by Insert, DeleteByKey and
\* DeleteByValue, Size() returns the number of forward entries, which equals
\* the number of inverse entries.
C5_SizeAsClaimed ==
    last.op = "Size" =>
        /\ last.ret[1] = Cardinality(DOMAIN heap[b.forward])
        /\ last.ret[1] = Cardinality(DOMAIN heap[b.inverse])

\* C5 as amended: Size() returns the number of forward entries in every
\* reachable state; it equals the number of inverse entries as long as no
\* Insert(k, v) has been made while v was the value of a different key.
C5_Size ==
    last.op = "Size" =>
        /\ last.outcome = "ok"
        /\ last.ret[1] = Cardinality(DOMAIN heap[b.forward])
        /\ ~collided => last.ret[1] = Cardinality(DOMAIN heap[b.inverse])

\* Size() has returned 2 for a BiMap of two pairs that no Insert collided on.
C5_Witness ==
    /\ last.op = "Size" /\ last.ret[1] = 2
    /\ ~collided
    /\ ~b.immutable

\* C6: after Insert(k, v) has returned on a non-frozen BiMap, whatever the
\* state before, GetByKey(k) = (v, true), GetByValue(v) = (k, true) and
\* ExistsByKey(k) and ExistsByValue(v) are true; GetByKey / GetByValue of a key /
\* value that is not in the index returns the zero value and false.
C6_InsertThenGet ==
    /\ (last.op = "Insert" /\ last.outcome = "ok") =>
        /\ GetByKey(heap, b, last.arg[1]) = [val |-> last.arg[2], ok |-> TRUE]
        /\ GetByValue(heap, b, last.arg[2]) = [val |-> last.arg[1], ok |-> TRUE]
        /\ ExistsByKey(heap, b, last.arg[1])
        /\ ExistsByValue(heap, b, last.arg[2])
    /\ (last.op = "Insert" /\ ~b.immutable) => last.outcome = "ok"
    /\ (last.op = "GetByKey" /\ last.arg[1] \notin DOMAIN heap[b.forward]) =>
        last.ret = <<ZeroV, FALSE>>
    /\ (last.op = "GetByValue" /\ last.arg[1] \notin DOMAIN heap[b.inverse]) =>
        last.ret = <<ZeroK, FALSE>>

\* An Insert(k, v) has returned where k already had the value v and another
\* key had it too.
C6_Witness ==
    /\ last.op = "Insert" /\ last.outcome = "ok"
    /\ last.ret = <<last.arg[2], TRUE>>
    /\ \E k2 \in (DOMAIN heap[b.forward]) \ {last.arg[1]} :
           heap[b.forward][k2] = last.arg[2]

\* C7: on a non-frozen BiMap whose indices are exact inverses, DeleteByKey(k)
\* of a present k (DeleteByValue(v) of a present v) removes that pair from
\* forward and from inverse, makes Size() one less and leaves every other pair
\* as it was; of an absent k (v) it changes nothing, and a second, equal delete
\* changes nothing either.
C7_Delete ==
    [][ /\ (~b.immutable /\ Bijection(heap, b) /\ last'.op = "DeleteByKey") =>
            LET k == last'.arg[1] IN
            /\ last'.outcome = "ok"
            /\ b' = b
            /\ IF k \in DOMAIN heap[b.forward]
                  THEN LET v == heap[b.forward][k] IN
                       /\ DOMAIN heap'[b.forward] = (DOMAIN heap[b.forward]) \ {k}
                       /\ DOMAIN heap'[b.inverse] = (DOMAIN heap[b.inverse]) \ {v}
                       /\ \A k2 \in DOMAIN heap'[b.forward] :
                              heap'[b.forward][k2] = heap[b.forward][k2]
                       /\ \A v2 \in DOMAIN heap'[b.inverse] :
                              heap'[b.inverse][v2] = heap[b.inverse][v2]
                       /\ Size(heap', b') = Size(heap, b) - 1
                  ELSE heap' = heap
            /\ DeleteByKeyHeap(heap', b', k) = heap'
        /\ (~b.immutable /\ Bijection(heap, b) /\ last'.op = "DeleteByValue") =>
            LET v == last'.arg[1] IN
            /\ last'.outcome = "ok"
            /\ b' = b
            /\ IF v \in DOMAIN heap[b.inverse]
                  THEN LET k == heap[b.inverse][v] IN
                       /\ DOMAIN heap'[b.forward] = (DOMAIN heap[b.forward]) \ {k}
                       /\ DOMAIN heap'[b.inverse] = (DOMAIN heap[b.inverse]) \ {v}
                       /\ \A k2 \in DOMAIN heap'[b.forward] :
                              heap'[b.forward][k2] = heap[b.forward][k2]
                       /\ \A v2 \in DOMAIN heap'[b.inverse] :
                              heap'[b.inverse][v2] = heap[b.inverse][v2]
                       /\ Size(heap', b') = Size(heap, b) - 1
                  ELSE heap' = heap
            /\ DeleteByValueHeap(heap', b', v) = heap'
      ]_vars

\* A DeleteByKey has removed one of two pairs of a BiMap whose indices were
\* exact inverses, and the other pair is still there.
C7_Witness ==
    /\ last.op = "DeleteByKey" /\ last.outcome = "ok" /\ last.ret[2]
    /\ ~collided
    /\ Bijection(heap, b)
    /\ Size(heap, b) = 1

\* C8 as claimed: in every reachable state, also after MakeImmutable, a
\* GetByKey / GetByValue that misses and a DeleteByKey / DeleteByValue of a key /
\* value that is not there return normally and change nothing.
C8_AbsenceAsClaimed ==
    [][ /\ (last'.op = "GetByKey" /\ last'.arg[1] \notin DOMAIN heap[b.forward]) =>
            last'.outcome = "ok" /\ heap' = heap /\ b' = b
        /\ (last'.op = "GetByValue" /\ last'.arg[1] \notin DOMAIN heap[b.inverse]) =>
            last'.outcome = "ok" /\ heap' = heap /\ b' = b
        /\ (last'.op = "DeleteByKey" /\ last'.arg[1] \notin DOMAIN heap[b.forward]) =>
            last'.outcome = "ok" /\ heap' = heap /\ b' = b
        /\ (last'.op = "DeleteByValue" /\ last'.arg[1] \notin DOMAIN heap[b.inverse]) =>
            last'.outcome = "ok" /\ heap' = heap /\ b' = b
      ]_vars

\* C8 as amended: in every reachable state, also after MakeImmutable, a
\* GetByKey / GetByValue that misses returns normally (zero value, false) and
\* changes nothing; a DeleteByKey / DeleteByValue of a key / value that is not
\* there changes nothing either, and returns normally on a BiMap that is not
\* frozen, while after MakeImmutable it panics like every other write.
C8_Absence ==
    [][ /\ (last'.op = "GetByKey" /\ last'.arg[1] \notin DOMAIN heap[b.forward]) =>
            /\ last'.outcome = "ok" /\ last'.ret = <<ZeroV, FALSE>>
            /\ heap' = heap /\ b' = b
        /\ (last'.op = "GetByValue" /\ last'.arg[1] \notin DOMAIN heap[b.inverse]) =>
            /\ last'.outcome = "ok" /\ last'.ret = <<ZeroK, FALSE>>
            /\ heap' = heap /\ b' = b
        /\ (last'.op = "DeleteByKey" /\ last'.arg[1] \notin DOMAIN heap[b.forward]) =>
            /\ last'.outcome = (IF b.immutable THEN "panic" ELSE "ok")
            /\ heap' = heap /\ b' = b
        /\ (last'.op = "DeleteByValue" /\ last'.arg[1] \notin DOMAIN heap[b.inverse]) =>
            /\ last'.outcome = (IF b.immutable THEN "panic" ELSE "ok")
            /\ heap' = heap /\ b' = b
      ]_vars

\* A DeleteByKey of a key that is not there has returned on a non-frozen BiMap
\* that holds the zero value under another key.
C8_Witness ==
    /\ ~b.immutable
    /\ last.op = "DeleteByKey" /\ last.outcome = "ok" /\ ~last.ret[2]
    /\ ZeroV \in DOMAIN heap[b.inverse]

\* C9: for BiMap and for ImmutableBiMap, in every state and for every k, v and
\* fallback F, GetByKeyWithFallback(k, F) returns forward[k] when k is present
\* and F otherwise, GetByValueWithFallback(v, F) returns inverse[v] when v is
\* present and F otherwise, and neither changes any state or panics.
C9_Fallback ==
    [][ /\ last'.op = "GetByKeyWithFallback" =>
            last'.ret[1] = IF last'.arg[1] \in DOMAIN heap[b.forward]
                              THEN heap[b.forward][last'.arg[1]] ELSE last'.arg[2]
        /\ last'.op = "GetByValueWithFallback" =>
            last'.ret[1] = IF last'.arg[1] \in DOMAIN heap[b.inverse]
                              THEN heap[b.inverse][last'.arg[1]] ELSE last'.arg[2]
        /\ last'.op = "Imm.GetByKeyWithFallback" =>
            last'.ret[1] = IF last'.arg[1] \in DOMAIN heap[frozen.forward]
                              THEN heap[frozen.forward][last'.arg[1]] ELSE last'.arg[2]
        /\ last'.op = "Imm.GetByValueWithFallback" =>
            last'.ret[1] = IF last'.arg[1] \in DOMAIN heap[frozen.inverse]
                              THEN heap[frozen.inverse][last'.arg[1]] ELSE last'.arg[2]
        /\ last'.op \in {"GetByKeyWithFallback", "GetByValueWithFallback",
                         "Imm.GetByKeyWithFallback", "Imm.GetByValueWithFallback"} =>
            /\ last'.outcome = "ok"
            /\ heap' = heap /\ b' = b /\ frozen' = frozen
      ]_vars

\* GetByValueWithFallback of an ImmutableBiMap has missed and returned a
\* fallback that is not the zero value, while the zero value is a stored key.
C9_Witness ==
    /\ last.op = "Imm.GetByValueWithFallback"
    /\ last.arg[1] \notin DOMAIN heap[frozen.inverse]
    /\ last.arg[2] # ZeroK /\ last.ret[1] = last.arg[2]
    /\ ZeroK \in DOMAIN heap[frozen.forward]

\* C10: every GetForwardMap() / GetInverseMap() of an ImmutableBiMap returns a
\* fresh map equal to the internal index; whatever the caller adds, changes or
\* removes in a returned map, every read of the ImmutableBiMap (Size, Exists*,
\* GetBy*) returns what it returned at construction and the maps returned by
\* other calls keep their contents.
C10_CopyIsolation ==
    /\ heap[frozen.forward] = built.forward
    /\ heap[frozen.inverse] = built.inverse
    /\ \A k \in Keys :
        /\ ImmGetByKey(heap, frozen, k) = MapGet(built.forward, k, ZeroV)
        /\ ImmExistsByKey(heap, frozen, k) = (k \in DOMAIN built.forward)
    /\ \A v \in Vals :
        /\ ImmGetByValue(heap, frozen, v) = MapGet(built.inverse, v, ZeroK)
        /\ ImmExistsByValue(heap, frozen, v) = (v \in DOMAIN built.inverse)
    /\ ImmSize(heap, frozen) = Cardinality(DOMAIN built.forward)
    /\ other # Nil =>
        /\ other.ref \notin {frozen.forward, frozen.inverse}
        /\ heap[other.ref] = built[other.of]
    /\ mine # Nil =>
        /\ mine.ref \notin {frozen.forward, frozen.inverse}
        /\ other # Nil => mine.ref # other.ref
        /\ (last.op \in {"Imm.GetForwardMap", "Imm.GetInverseMap"}
                /\ last.arg[1] = "mine") => heap[mine.ref] = built[mine.of]

\* The caller holds two copies of the forward index of an ImmutableBiMap with
\* a pair in it and has edited one of them, which now differs from the index.
C10_Witness ==
    /\ mine # Nil /\ other # Nil
    /\ mine.of = "forward" /\ other.of = "forward"
    /\ last.op \in {"caller.put", "caller.delete"}
    /\ Cardinality(DOMAIN heap[frozen.forward]) >= 1
    /\ heap[mine.ref] # heap[frozen.forward]

\* ---- properties of the concurrent calls -----------------------------------
\* Thread t is inside a write's critical section: it has taken the lock in a
\* write and not released it, or holds it through Lock().
InsideWrite(t) ==
    \/ thread[t].pc \in {"check", "evict", "putForward", "putInverse", "lookup",
                         "deleteFirst", "deleteSecond", "set", "Unlock"}
    \/ thread[t].held

\* Thread t is inside a read's critical section (Freeze included).
InsideRead(t) == thread[t].pc \in {"read", "copyInverse", "RUnlock"}

\* Some write has changed one index and not yet the other.
HalfApplied == \E t \in Threads : thread[t].pc \in {"putForward", "putInverse", "deleteSecond"}

\* What the read op with argument list a returns on the indices of heap h.
ReadResult(h, op, a) ==
    IF op = "ExistsByKey" THEN [ok |-> ExistsByKey(h, b, a[1])]
    ELSE IF op = "ExistsByValue" THEN [ok |-> ExistsByValue(h, b, a[1])]
    ELSE IF op = "Size" THEN [n |-> Size(h, b)]
    ELSE IF op = "GetByKey" THEN GetByKey(h, b, a[1])
    ELSE GetByValue(h, b, a[1])

\* C11: with the threads calling Insert, DeleteByKey, DeleteByValue, the reads
\* and Freeze in every interleaving, at most one writer is inside its critical
\* section, no reader is inside while a writer is, and what a read has
\* observed (for Freeze: the forward index it has copied, then the pair of
\* indices) is what the indices hold with no write half applied.
C11_Exclusion ==
    /\ Cardinality({t \in Threads : InsideWrite(t)}) <= 1
    /\ (\E t \in Threads : InsideWrite(t)) => ~(\E u \in Threads : InsideRead(u))
    /\ \A t \in Threads :
        /\ (InsideWrite(t) \/ thread[t].pc = "drain") <=> s.w = t
        /\ InsideRead(t) <=> t \in s.r
        /\ InsideRead(t) => ~HalfApplied
        /\ (thread[t].pc = "RUnlock" /\ thread[t].op # "Freeze") =>
               thread[t].val = ReadResult(heap, thread[t].op, thread[t].arg)
        /\ thread[t].pc = "copyInverse" => thread[t].val = [forward |-> heap[b.forward]]
        /\ (thread[t].pc = "RUnlock" /\ thread[t].op = "Freeze") =>
               thread[t].val = [forward |-> heap[b.forward], inverse |-> heap[b.inverse]]

\* An Insert has written forward and not yet inverse, so the two indices
\* disagree, while another thread waits in a read for the lock.
C11_Witness ==
    \E t, u \in Threads :
        /\ thread[t].pc = "putInverse"
        /\ ~ForwardInverted(heap, b)
        /\ thread[u].pc = "RLock"

\* C12: a thread that has called Lock() and then calls operations of the
\* BiMap (ExistsByKey(k), then Insert(k, v)) before Unlock() completes those
\* calls: where such a call waits for the lock, the lock lets it in; and no
\* other thread is inside an operation of the BiMap meanwhile.
C12_LockedCompose ==
    \A t \in Threads : thread[t].held =>
        /\ thread[t].pc = "Lock" => CanLock(s)
        /\ thread[t].pc = "RLock" => CanRLock(s)
        /\ thread[t].pc = "drain" => ReadersGone(s)
        /\ \A u \in Threads \ {t} : ~InsideWrite(u) /\ ~InsideRead(u)

\* ---- properties of Insert around a value collision ------------------------
\* The pair (k, v) is consistent in heap h: forward[k] = v and inverse[v] = k.
Consistent(h, bm, k, v) ==
    /\ k \in DOMAIN h[bm.forward] /\ h[bm.forward][k] = v
    /\ v \in DOMAIN h[bm.inverse] /\ h[bm.inverse][v] = k

\* C13: in every reachable state of a non-frozen BiMap, after Insert(k, v)
\* forward[k] = v and inverse[v] = k, and every pair (k2, v2) with k2 # k and
\* v2 # v that had forward[k2] = v2 and inverse[v2] = k2 before the call has
\* both after it.
C13_InsertSafety ==
    [][ (last'.op = "Insert" /\ last'.outcome = "ok") =>
        LET k == last'.arg[1]
            v == last'.arg[2]
        IN  /\ Consistent(heap', b', k, v)
            /\ \A k2 \in Keys \ {k}, v2 \in Vals \ {v} :
                   Consistent(heap, b, k2, v2) => Consistent(heap', b', k2, v2)
      ]_vars

\* C14: in the state an accepted Insert(k2, v) has left, where another key k1
\* still maps to v and the indices are exact inverses but for that entry of
\* k1, DeleteByKey(k1) or Insert(k1, w) with a value w that is in neither
\* index makes forward and inverse exact inverses of equal size again, with
\* GetByValue(v) = (k2, true).
C14_Repair ==
    [][ \A k1 \in Keys :
        LET k2 == last.arg[1]
            v  == last.arg[2]
        IN  ( /\ last.op = "Insert" /\ last.outcome = "ok" /\ ~b.immutable
              /\ k1 # k2
              /\ k1 \in DOMAIN heap[b.forward] /\ heap[b.forward][k1] = v
              /\ Bijection([heap EXCEPT ![b.forward] = MapDelete(@, k1)], b)
              /\ \/ last'.op = "DeleteByKey" /\ last'.arg = <<k1>>
                 \/ /\ last'.op = "Insert" /\ last'.arg[1] = k1
                    /\ last'.arg[2] \notin DOMAIN heap[b.inverse]
                    /\ \A k \in DOMAIN heap[b.forward] :
                           heap[b.forward][k] # last'.arg[2] )
            => /\ Bijection(heap', b')
               /\ GetByValue(heap', b', v) = [val |-> k2, ok |-> TRUE]
      ]_vars

\* C15: on a non-frozen BiMap whose indices are exact inverses and where k1
\* maps to v, Insert(k2, v) of an absent key k2 # k1 is accepted and leaves
\* forward[k1] = v, forward[k2] = v and inverse[v] = k2, so that
\* GetByKey(k1) = (v, true) and GetByValue(v) = (k2, true); Size() is one more
\* and the inverse index has as many entries as before.
C15_Collision ==
    [][ \A k1 \in Keys :
        LET k2 == last'.arg[1]
            v  == last'.arg[2]
        IN  ( /\ last'.op = "Insert"
              /\ ~b.immutable /\ Bijection(heap, b)
              /\ k1 # k2 /\ k2 \notin DOMAIN heap[b.forward]
              /\ k1 \in DOMAIN heap[b.forward] /\ heap[b.forward][k1] = v )
            => /\ last'.outcome = "ok"
               /\ MapGet(heap'[b'.forward], k1, ZeroV) = [val |-> v, ok |-> TRUE]
               /\ MapGet(heap'[b'.forward], k2, ZeroV) = [val |-> v, ok |-> TRUE]
               /\ MapGet(heap'[b'.inverse], v, ZeroK) = [val |-> k2, ok |-> TRUE]
               /\ GetByKey(heap', b', k1) = [val |-> v, ok |-> TRUE]
               /\ GetByKey(heap', b', k2) = [val |-> v, ok |-> TRUE]
               /\ GetByValue(heap', b', v) = [val |-> k2, ok |-> TRUE]
               /\ Size(heap', b') = Size(heap, b) + 1
               /\ MapLen(heap'[b'.inverse]) = MapLen(heap[b.inverse])
      ]_vars

\* An Insert(k2, v) of a key that was absent has been accepted while another
\* key maps to v: forward has the two keys, inverse the one entry v -> k2.
C15_Witness ==
    /\ last.op = "Insert" /\ last.outcome = "ok" /\ ~last.ret[2]
    /\ \E k1 \in (DOMAIN heap[b.forward]) \ {last.arg[1]} :
           heap[b.forward][k1] = last.arg[2]
    /\ MapLen(heap[b.forward]) = 2
    /\ heap[b.inverse] = MapPut(EmptyMap, last.arg[2], last.arg[1])

\* C16: the flag is false after NewBiMap / NewBiMapFromMap; the one statement
\* that changes the BiMap's fields is that of MakeImmutable, which sets the
\* flag and leaves the indices alone; once set, the flag stays set through
\* every statement of Insert, Delete*, Freeze, Lock / Unlock, the reads and a
\* second MakeImmutable, and a second MakeImmutable changes nothing at all.
C16_FlagMonotonic ==
    /\ ~b.immutable
    /\ [][ /\ b.immutable => b'.immutable
           /\ b' # b =>
               /\ \E t \in Threads :
                      /\ thread[t].op = "MakeImmutable" /\ thread[t].pc = "set"
                      /\ thread'[t].pc = "Unlock"
               /\ b' = [b EXCEPT !.immutable = TRUE]
               /\ heap' = heap
           /\ (b.immutable /\ \E t \in Threads :
                                 thread[t].pc = "set" /\ thread'[t].pc = "Unlock") =>
               /\ b' = b
               /\ heap' = heap
         ]_vars

\* The flag is set and a further MakeImmutable is inside, about to set it.
C16_Witness ==
    /\ b.immutable
    /\ \E t \in Threads : thread[t].op = "MakeImmutable" /\ thread[t].pc = "set"

\* The statements of Insert, DeleteByKey and DeleteByValue after the
\* immutable check.
WriteBody == {"evict", "putForward", "putInverse", "lookup", "deleteFirst", "deleteSecond"}

\* C17: with MakeImmutable running concurrently with Insert, DeleteByKey and
\* DeleteByValue of other threads, no writer is in the statements after its
\* immutable check once the flag is set (it has applied its whole change
\* before), a writer that panics has changed nothing and changes nothing, and
\* once the flag is set forward and inverse never change: in particular not
\* after MakeImmutable has returned.
C17_FreezeVsWriters ==
    /\ [](\A t \in Threads :
            /\ thread[t].pc \in WriteBody => ~b.immutable
            /\ thread[t].outcome = "panic" =>
                   /\ b.immutable
                   /\ thread[t].pc = "Unlock"
                   /\ thread[t].val = Nil)
    /\ [][ /\ b.immutable =>
               /\ heap'[b.forward] = heap[b.forward]
               /\ heap'[b.inverse] = heap[b.inverse]
           /\ \A t \in Threads :
                  (thread[t].outcome = "panic" \/ thread'[t].outcome = "panic") =>
                      heap' = heap
         ]_vars

\* The flag is set, a writer that found it set has panicked and is about to
\* leave its call, and the indices still hold a pair.
C17_Witness ==
    /\ b.immutable
    /\ \E t \in Threads :
           /\ thread[t].op \in {"Insert", "DeleteByKey", "DeleteByValue"}
           /\ thread[t].pc = "Unlock" /\ thread[t].outcome = "panic"
    /\ MapLen(heap[b.forward]) >= 1

\* Some thread holds the lock through Lock().
HeldByLock == \E t \in Threads : thread[t].held

\* Thread u is in a call that waits for the lock.
Waiting(u) == thread[u].pc \in {"Lock", "RLock"}

\* C18: while a thread holds the lock through Lock() and has not called
\* Unlock(), no call of another thread that takes the lock (Insert, Delete*,
\* the reads, MakeImmutable, Freeze, Lock) gets past its first statement or
\* leaves; a call that waits for the lock leaves (returns, or panics when it
\* is a write on a frozen BiMap) once no thread holds the lock through Lock();
\* GetForwardMap and GetInverseMap return whoever holds the lock.
C18_HeldLockBlocks ==
    /\ [][ \A t \in Threads : (thread[t].held /\ thread'[t].held) =>
               \A u \in Threads \ {t} :
                   /\ Waiting(u) => thread'[u] = thread[u]
                   /\ thread[u].pc \notin {"idle", "return"} => Waiting(u)
         ]_vars
    /\ \A u \in Threads :
        /\ (Waiting(u) /\ ~HeldByLock) ~> (thread[u].pc = "idle" \/ HeldByLock)
        /\ thread[u].pc = "return" ~> thread[u].pc = "idle"

\* One thread holds the lock through Lock(); another waits in a call for the
\* lock while a third call, GetForwardMap, has its result without the lock.
C18_Witness ==
    \E t, u \in Threads :
        /\ thread[t].held /\ thread[t].pc = "return" /\ thread[t].op = "GetForwardMap"
        /\ u # t /\ Waiting(u)

\* No two keys of m have the same value.
OneToOne(m) == \A k1, k2 \in DOMAIN m : m[k1] = m[k2] => k1 = k2

\* The values of m.
Range(m) == {m[k] : k \in DOMAIN m}

\* The key with value v that a loop over m in the order o visits last.
LastVisited(m, o, v) ==
    LET at == CHOOSE i \in DOMAIN o :
                  /\ m[o[i]] = v
                  /\ \A j \in DOMAIN o : m[o[j]] = v => j <= i
    IN  o[at]

\* The indices NewBiMapFromMap(m) has when its loop visits m in the order o.
FromMapIn(m, o) == NewBiMapFromMapHeap(NewBiMapHeap, NewBiMap, m, o)

\* C19 as claimed: for every input map m, NewBiMapFromMap(m) has the same
\* forward and inverse indices, and gives the same reads, whatever the order
\* its loop visits the pairs of m in.
C19_OrderIndependentAsClaimed ==
    \A o \in Orders(DOMAIN built.input) :
        LET h == FromMapIn(built.input, o)
        IN  /\ h[b.forward] = heap[b.forward]
            /\ h[b.inverse] = heap[b.inverse]
            /\ \A k \in Keys : GetByKey(h, b, k) = GetByKey(heap, b, k)
            /\ \A v \in Vals : GetByValue(h, b, v) = GetByValue(heap, b, v)
            /\ Size(h, b) = Size(heap, b)

\* C19: NewBiMapFromMap(m) has forward equal to m whatever the order its loop
\* visits the pairs in, and an inverse entry for each value of m and no
\* other, holding the key with that value visited last; so two constructions
\* from a map no two keys of which share a value have the same indices and
\* give the same reads, and two constructions from any m give the same
\* GetByKey, ExistsByKey, ExistsByValue and Size.
C19_OrderIndependent ==
    /\ heap[b.forward] = built.input
    /\ \A o \in Orders(DOMAIN built.input) :
        LET h == FromMapIn(built.input, o)
        IN  /\ h[b.forward] = built.input
            /\ DOMAIN h[b.inverse] = Range(built.input)
            /\ \A v \in Range(built.input) :
                   h[b.inverse][v] = LastVisited(built.input, o, v)
            /\ \A k \in Keys : /\ GetByKey(h, b, k) = GetByKey(heap, b, k)
                                /\ ExistsByKey(h, b, k) = ExistsByKey(heap, b, k)
            /\ \A v \in Vals : ExistsByValue(h, b, v) = ExistsByValue(heap, b, v)
            /\ Size(h, b) = Size(heap, b)
            /\ OneToOne(built.input) =>
                   /\ h[b.inverse] = heap[b.inverse]
                   /\ \A v \in Vals : GetByValue(h, b, v) = GetByValue(heap, b, v)

\* A BiMap built from a map with two keys of one value, which another order
\* of the loop would have given another inverse index, has been read.
C19_Witness ==
    /\ ~OneToOne(built.input)
    /\ \E o \in Orders(DOMAIN built.input) :
           FromMapIn(built.input, o)[b.inverse] # heap[b.inverse]
    /\ last.op = "GetByValue"

\* C20 as claimed: for every input map m, the ImmutableBiMap from
\* NewImmutableBiMapFromMap(m) has forward equal to m and inverse the exact
\* inverse of forward, and its Size() is the number of inverse entries.
C20_ExactInverseAsClaimed ==
    /\ heap[frozen.forward] = built.input
    /\ \A k \in DOMAIN heap[frozen.forward] :
           MapGet(heap[frozen.inverse], heap[frozen.forward][k], ZeroK)
               = [val |-> k, ok |-> TRUE]
    /\ ImmSize(heap, frozen) = MapLen(heap[frozen.inverse])

\* C20: the ImmutableBiMap from NewImmutableBiMapFromMap(m) has forward equal
\* to m, and Size() the number of pairs of m; inverse has an entry for each
\* value of m and no other, holding a key of m with that value; when no two
\* keys of m share a value inverse is the exact inverse of forward and Size()
\* is the number of inverse entries, and otherwise Size() is larger.
C20_ExactInverse ==
    /\ heap[frozen.forward] = built.input
    /\ ImmSize(heap, frozen) = Cardinality(DOMAIN built.input)
    /\ DOMAIN heap[frozen.inverse] = Range(built.input)
    /\ \A v \in DOMAIN heap[frozen.inverse] :
           MapGet(built.input, heap[frozen.inverse][v], ZeroV) = [val |-> v, ok |-> TRUE]
    /\ IF OneToOne(built.input)
          THEN /\ \A k \in DOMAIN heap[frozen.forward] :
                      MapGet(heap[frozen.inverse], heap[frozen.forward][k], ZeroK)
                          = [val |-> k, ok |-> TRUE]
               /\ ImmSize(heap, frozen) = MapLen(heap[frozen.inverse])
          ELSE ImmSize(heap, frozen) > MapLen(heap[frozen.inverse])

\* An ImmutableBiMap built from a map with two keys of one value has had its
\* Size() read: it is larger than the inverse index.
C20_Witness ==
    /\ ~OneToOne(built.input)
    /\ last.op = "Imm.Size"
    /\ last.ret = <<ImmSize(heap, frozen)>>
    /\ ImmSize(heap, frozen) > MapLen(heap[frozen.inverse])

\* The index of the BiMap a map the caller holds was taken from.
IndexOf(held) == IF held.of = "forward" THEN b.forward ELSE b.inverse

\* The map the caller holds is the index itself, and shows what the call made
\* last did to it and what the BiMap's own read returned.
Live(held) ==
    /\ held.ref = IndexOf(held)
    /\ heap[held.ref] = heap[IndexOf(held)]
    /\ (last.op = "Insert" /\ last.outcome = "ok") =>
           IF held.of = "forward"
              THEN MapGet(heap[held.ref], last.arg[1], ZeroV)
                       = [val |-> last.arg[2], ok |-> TRUE]
              ELSE MapGet(heap[held.ref], last.arg[2], ZeroK)
                       = [val |-> last.arg[1], ok |-> TRUE]
    /\ (last.op = "DeleteByKey" /\ last.outcome = "ok" /\ held.of = "forward") =>
           ~MapGet(heap[held.ref], last.arg[1], ZeroV).ok
    /\ (last.op = "DeleteByKey" /\ last.outcome = "ok" /\ held.of = "inverse"
            /\ last.ret[2]) =>
           ~MapGet(heap[held.ref], last.ret[1], ZeroK).ok
    /\ (last.op = "DeleteByValue" /\ last.outcome = "ok" /\ held.of = "inverse") =>
           ~MapGet(heap[held.ref], last.arg[1], ZeroK).ok
    /\ (last.op = "DeleteByValue" /\ last.outcome = "ok" /\ held.of = "forward"
            /\ last.ret[2]) =>
           ~MapGet(heap[held.ref], last.ret[1], ZeroV).ok
    /\ (last.op = "GetByKey" /\ held.of = "forward") =>
           LET r == MapGet(heap[held.ref], last.arg[1], ZeroV)
           IN  last.ret = <<r.val, r.ok>>
    /\ (last.op = "GetByValue" /\ held.of = "inverse") =>
           LET r == MapGet(heap[held.ref], last.arg[1], ZeroK)
           IN  last.ret = <<r.val, r.ok>>

\* C21: a map GetForwardMap() or GetInverseMap() of a BiMap returned is the
\* BiMap's index itself, not a copy: in every state after the call it equals
\* the index the BiMap's reads use, so that an accepted Insert, DeleteByKey or
\* DeleteByValue made later shows in it and GetByKey / GetByValue return what
\* it holds.
C21_LiveIndex ==
    /\ mine # Nil => Live(mine)
    /\ other # Nil => Live(other)

\* The caller holds the forward index and the inverse index; the Insert of
\* the BiMap's only pair, made after it took them, shows in both.
C21_Witness ==
    /\ mine # Nil /\ mine.of = "forward"
    /\ other # Nil /\ other.of = "inverse"
    /\ last.op = "Insert" /\ last.outcome = "ok" /\ ~last.ret[2]
    /\ MapLen(heap[mine.ref]) = 1
    /\ MapGet(heap[mine.ref], last.arg[1], ZeroV) = [val |-> last.arg[2], ok |-> TRUE]
    /\ MapGet(heap[other.ref], last.arg[2], ZeroK) = [val |-> last.arg[1], ok |-> TRUE]

\* Thread t's latest call was a write that panicked on a frozen BiMap, and t
\* has made no call since.
Panicked(t) == thread[t].panicked

\* No thread is at a statement inside the lock, and none holds it by Lock().
NobodyInside ==
    \A t \in Threads :
        thread[t].pc \in {"idle", "return", "Lock", "RLock"} /\ ~thread[t].held

\* C22: an Insert, DeleteByKey or DeleteByValue that panics because the BiMap
\* is frozen has released the lock when the panic leaves the call: the thread
\* whose call panicked owns no part of the lock, and the lock is free
\* whenever no call is inside it; so on
\* a frozen BiMap, whatever calls have panicked, every call that waits for
\* the lock (a read, Freeze, MakeImmutable) gets it and leaves, unless a
\* thread keeps the lock by Lock().
C22_PanicReleasesLock ==
    /\ [](\A t \in Threads :
            Panicked(t) => (thread[t].pc = "idle" /\ s.w # t /\ t \notin s.r))
    /\ [](NobodyInside => s = NewRWMutex)
    /\ \A u \in Threads :
           (b.immutable /\ Waiting(u) /\ ~HeldByLock)
               ~> (thread[u].pc = "idle" \/ HeldByLock)

\* A write of one thread has panicked on the frozen BiMap and left; a read
\* of another thread has taken the lock since (the write had it until it
\* left) and has its result.
C22_Witness ==
    \E t, u \in Threads :
        /\ t # u
        /\ b.immutable
        /\ Panicked(t) /\ thread[t].pc = "idle"
        /\ thread[u].pc = "RUnlock" /\ u \in s.r
        /\ thread[u].op \in ReadLockOps \ {"Freeze"}
====
